---- MODULE Spec2Model ----
(***************************************************************************)
(* State-machine model of src/index.tsx: the upload handler, the prompt    *)
(* composer and the generate click handler with its result-tile lifecycle. *)
(*                                                                         *)
(* JavaScript strings that the code takes apart or puts together are       *)
(* tuples of one-character strings; fixed messages that are only displayed *)
(* stay TLA+ strings.  An optional value (null / undefined / a missing     *)
(* property) is the empty tuple None, a present value x is Some(x).        *)
(***************************************************************************)
EXTENDS Integers, Sequences, FiniteSets, TLC

\* Bounds of the model.
MaxActions == 2      \* click-handler invocations alive at the same time
MaxUploads == 2      \* FileReaders decoding at the same time

None == << >>
Some(x) == << x >>
IsSome(o) == Len(o) = 1
Get(o) == o[1]

(***************************************************************************)
(* Characters and string constants.                                        *)
(***************************************************************************)
LowerAZ == << "a","b","c","d","e","f","g","h","i","j","k","l","m",
              "n","o","p","q","r","s","t","u","v","w","x","y","z" >>
UpperAZ == << "A","B","C","D","E","F","G","H","I","J","K","L","M",
              "N","O","P","Q","R","S","T","U","V","W","X","Y","Z" >>
Digits == << "0","1","2","3","4","5","6","7","8","9" >>

\* The one character U+00E9 (a letter outside ASCII).
EAcute == "e-acute"

Range(s) == { s[i] : i \in 1..Len(s) }
Last(s) == s[Len(s)]
Front(s) == SubSeq(s, 1, Len(s) - 1)

\* String.prototype.startsWith
StartsWith(s, prefix) ==
    /\ Len(s) >= Len(prefix)
    /\ SubSeq(s, 1, Len(prefix)) = prefix

\* String.prototype.split with a one-character separator: the pieces between
\* the separators, in order (always at least one piece).
RECURSIVE Split(_, _)
Split(s, sep) ==
    IF \A i \in 1..Len(s) : s[i] # sep
    THEN << s >>
    ELSE LET k == CHOOSE i \in 1..Len(s) :
                      s[i] = sep /\ \A j \in 1..(i - 1) : s[j] # sep
         IN  << SubSeq(s, 1, k - 1) >> \o Split(SubSeq(s, k + 1, Len(s)), sep)

\* arr[i] with a JavaScript (0-based) index: undefined past the end.
JsIndex(arr, i) == IF i + 1 <= Len(arr) THEN Some(arr[i + 1]) ELSE None

\* Template-literal interpolation `${v}` of an optional string.
Str(o) == IF IsSome(o) THEN Get(o)
          ELSE << "u","n","d","e","f","i","n","e","d" >>

ImagePrefix == << "i","m","a","g","e","/" >>
DataScheme == << "d","a","t","a",":" >>
Base64Mark == << ";","b","a","s","e","6","4","," >>

\* `data:${mimeType};base64,${data}`  (lines 77 and 109)
DataUri(mimeType, data) == DataScheme \o mimeType \o Base64Mark \o data

(***************************************************************************)
(* Files the user can select or drop.  FileReader.readAsDataURL yields     *)
(* "data:<type>;base64,<payload>"; the payload of a zero-byte file is      *)
(* empty.                                                                  *)
(***************************************************************************)
PngType == << "i","m","a","g","e","/","p","n","g" >>
GifType == << "i","m","a","g","e","/","g","i","f" >>
TextType == << "t","e","x","t","/","p","l","a","i","n" >>
NotImageType == << "x","i","m","a","g","e","/" >>

\* File objects: the MIME type the browser reports and the base64 form of the
\* file's bytes (empty for a zero-byte file).
ImageFiles == { [ type |-> PngType, payload |-> << "A","A","A","A" >> ],
                [ type |-> GifType, payload |-> << >> ] }
OtherFiles == { [ type |-> TextType, payload |-> << "A","A","A","A" >> ],
                [ type |-> NotImageType, payload |-> << "Q","k","0","=" >> ],
                [ type |-> << >>, payload |-> << "A","A","A","A" >> ] }
Files == ImageFiles \cup OtherFiles

ReadAsDataURL(file) == DataUri(file.type, file.payload)

(***************************************************************************)
(* Option values of the four dropdowns (the markup is not part of the      *)
(* source; the values are arbitrary option texts).                         *)
(***************************************************************************)
Options ==
    [ pose        |-> { << "S","i","t" >>, << "r","u","n","-","2" >> },
      expression  |-> { << "j","o","y" >> },
      style       |-> { << "3","D" >> },
      cameraAngle |-> { << "l","o","w" >> } ]
SelectNames == { "pose", "expression", "style", "cameraAngle" }
Selections(options) ==
    [ pose : options.pose, expression : options.expression,
      style : options.style, cameraAngle : options.cameraAngle ]

VARIABLES
    uploadedFile,        \* None, or Some([base64, mimeType])
    imagePreview,        \* [src, hidden]
    uploadPlaceholder,   \* [hidden]
    disabled,            \* the disabled property of the five controls
    selected,            \* the value of each dropdown
    loadingIndicator,    \* [hidden]
    loadingMessage,      \* its textContent
    resultsGrid,         \* the children of the results area, in order
    readers,             \* the files whose FileReader is still decoding
    inv,                 \* the invocations of the click handler that passed
                         \* its precondition and are still alive, by slot
    current,             \* the slot of the latest such invocation, 0 if none
    alert,               \* the message of the alert() dialog that is open,
                         \* "" if none; while it is open the page handles
                         \* no other event
    observed             \* what an observer who repeats a generate action
                         \* noted of the results area before repeating it;
                         \* None when nobody observes

vars == << uploadedFile, imagePreview, uploadPlaceholder, disabled, selected,
           loadingIndicator, loadingMessage, resultsGrid, readers, inv,
           current, alert, observed >>

uploadVars == << uploadedFile, imagePreview, uploadPlaceholder >>
domVars == << loadingIndicator, loadingMessage, resultsGrid >>

Controls ==
    { "generateBtn", "poseSelect", "expressionSelect", "styleSelect",
      "cameraAngleSelect" }
Slots == 1..MaxActions

\* A slot that holds no invocation.
Free ==
    [ pc |-> "free", combinedPrompt |-> << >>, request |-> None,
      response |-> None, resultSrc |-> None, logged |-> 0,
      uncaught |-> FALSE, swaps |-> 0, finalised |-> 0 ]

\* The page before any upload, with the given dropdown values.
Fresh(b, sel) ==
    /\ uploadedFile = None
    /\ imagePreview = [ src |-> << >>, hidden |-> TRUE ]
    /\ uploadPlaceholder = [ hidden |-> FALSE ]
    /\ disabled = [ c \in Controls |-> IF c = "generateBtn" THEN b ELSE FALSE ]
    /\ selected = sel
    /\ loadingIndicator = [ hidden |-> TRUE ]
    /\ loadingMessage = ""
    /\ resultsGrid = << >>
    /\ readers = { }
    /\ inv = [ a \in Slots |-> Free ]
    /\ current = 0
    /\ alert = ""
    /\ observed = None

(***************************************************************************)
(* The state after the module has been evaluated.  Whether the generate    *)
(* button starts disabled is decided by the markup, so both are initial    *)
(* states.                                                                 *)
(***************************************************************************)
Init == \E b \in BOOLEAN : \E sel \in Selections(Options) : Fresh(b, sel)

(***************************************************************************)
(* Upload handler.                                                         *)
(***************************************************************************)
\* Mutant of IsImageType: 'image/' is looked for anywhere in the type
\* (includes instead of startsWith).
IsImageTypeAnywhere(type) ==
    \E k \in 0..(Len(type) - Len(ImagePrefix)) :
        SubSeq(type, k + 1, k + Len(ImagePrefix)) = ImagePrefix

\* file.type.startsWith('image/')
IsImageType(type) == StartsWith(type, ImagePrefix)

\* (reader.result as string).split(',')[1]
Base64String(result) == JsIndex(Split(result, ","), 1)

\* Mutant of HandleFileRejected: a rejected file also discards the stored
\* image.
HandleFileRejectedClears(file) ==
    /\ alert = ""
    /\ ~IsImageType(file.type)
    /\ alert' = "Please select an image file."
    /\ uploadedFile' = None
    /\ UNCHANGED << observed, imagePreview, uploadPlaceholder, disabled,
                    selected, domVars, readers, inv, current >>

\* handleFile, the non-image branch: alert and return.
HandleFileRejected(file) ==
    /\ alert = ""
    /\ ~IsImageType(file.type)
    /\ alert' = "Please select an image file."
    /\ UNCHANGED << observed, uploadVars, disabled, selected, domVars, readers, inv,
                    current >>

\* handleFile, the image branch: a FileReader is created and started.
HandleFileAccepted(file) ==
    /\ alert = ""
    /\ Cardinality(readers) < MaxUploads
    /\ IsImageType(file.type)
    /\ readers' = readers \cup { file }
    /\ UNCHANGED << observed, uploadVars, disabled, selected, domVars, inv, current,
                    alert >>

\* handleFile: the two branches of its type check.
HandleFile ==
    \E file \in Files : HandleFileRejected(file) \/ HandleFileAccepted(file)

\* Mutant of ReaderOnload: the preview is set by the first completed decode
\* only; later ones store their image and leave the preview as it is.
ReaderOnloadKeepsPreview ==
    \E file \in readers :
        /\ alert = ""
        /\ LET base64String == Base64String(ReadAsDataURL(file))
           IN  /\ uploadedFile' = Some([ base64 |-> base64String,
                                         mimeType |-> file.type ])
               /\ imagePreview' =
                      IF imagePreview.hidden
                      THEN [ src |-> DataUri(file.type, Str(base64String)),
                             hidden |-> FALSE ]
                      ELSE imagePreview
               /\ uploadPlaceholder' = [ hidden |-> TRUE ]
               /\ disabled' = [ disabled EXCEPT !["generateBtn"] = FALSE ]
        /\ readers' = readers \ { file }
        /\ UNCHANGED << observed, selected, domVars, inv, current, alert >>

\* reader.onload: the decode of some file has completed.
ReaderOnload ==
    \E file \in readers :
        /\ alert = ""
        /\ LET base64String == Base64String(ReadAsDataURL(file))
           IN  /\ uploadedFile' = Some([ base64 |-> base64String,
                                         mimeType |-> file.type ])
               /\ imagePreview' = [ src |-> DataUri(file.type, Str(base64String)),
                                    hidden |-> FALSE ]
               /\ uploadPlaceholder' = [ hidden |-> TRUE ]
               /\ disabled' = [ disabled EXCEPT !["generateBtn"] = FALSE ]
        /\ readers' = readers \ { file }
        /\ UNCHANGED << observed, selected, domVars, inv, current, alert >>

\* The dropdown element of each selection.
SelectOf(s) ==
    IF s = "pose" THEN "poseSelect"
    ELSE IF s = "expression" THEN "expressionSelect"
    ELSE IF s = "style" THEN "styleSelect"
    ELSE "cameraAngleSelect"

\* The user picks another option of an enabled dropdown.
SelectChange ==
    \E s \in SelectNames : \E v \in Options[s] :
        /\ alert = ""
        /\ ~disabled[SelectOf(s)]
        /\ selected[s] # v
        /\ selected' = [ selected EXCEPT ![s] = v ]
        /\ UNCHANGED << observed, uploadVars, disabled, domVars, readers, inv, current,
                        alert >>

(***************************************************************************)
(* Generation service responses.  A response is either a rejection of the  *)
(* call or a value whose candidates / content / parts may be missing.      *)
(***************************************************************************)
TextPart == [ text |-> Some(<< "o","k" >>), inlineData |-> None ]
PngPart == [ text |-> None,
             inlineData |-> Some([ data |-> << "A","A","A","A" >>,
                                   mimeType |-> PngType ]) ]
GifPart == [ text |-> None,
             inlineData |-> Some([ data |-> << "Q","k","0","=" >>,
                                   mimeType |-> GifType ]) ]

Resolved(candidates) ==
    [ settle |-> "resolve", error |-> "", candidates |-> candidates ]
Rejected(error) ==
    [ settle |-> "reject", error |-> error, candidates |-> None ]
WithParts(parts) ==
    Resolved(Some(<< [ content |-> Some([ parts |-> Some(parts) ]) ] >>))

\* Responses without candidates, without a first candidate, without content
\* and without parts.
Malformed == { Resolved(None), Resolved(Some(<< >>)),
               Resolved(Some(<< [ content |-> None ] >>)),
               Resolved(Some(<< [ content |-> Some([ parts |-> None ]) ] >>)) }
Rejections == { Rejected("network"), Rejected("quota") }

\* The responses of the lifecycle specification Spec: one of each kind.
Responses ==
    { Rejected("network"), Resolved(None), WithParts(<< TextPart >>),
      WithParts(<< PngPart >>) }

\* The responses of the specification SpecService: every rejection, every
\* malformed shape and part lists with text and image parts in every order.
PartLists ==
    { << >>, << TextPart >>, << TextPart, TextPart >>, << PngPart >>,
      << GifPart >>, << TextPart, GifPart >>, << PngPart, GifPart >>,
      << GifPart, PngPart >>, << TextPart, TextPart, PngPart >>,
      << TextPart, PngPart, GifPart >>, << GifPart, TextPart, PngPart >> }
AllResponses == Rejections \cup Malformed \cup { WithParts(p) : p \in PartLists }

\* Mutant of ScanParts: the loop keeps the last part with inline data instead
\* of returning at the first.
RECURSIVE ScanPartsLast(_)
ScanPartsLast(parts) ==
    IF parts = << >> THEN None
    ELSE IF IsSome(Last(parts).inlineData)
         THEN Some(DataUri(Get(Last(parts).inlineData).mimeType,
                           Get(Last(parts).inlineData).data))
         ELSE ScanPartsLast(Front(parts))

\* for (const part of parts) if (part.inlineData) return `data:...`; return null
RECURSIVE ScanParts(_)
ScanParts(parts) ==
    IF parts = << >> THEN None
    ELSE IF IsSome(Head(parts).inlineData)
         THEN Some(DataUri(Get(Head(parts).inlineData).mimeType,
                           Get(Head(parts).inlineData).data))
         ELSE ScanParts(Tail(parts))

Return(value) == [ kind |-> "return", value |-> value, error |-> "" ]
Throw(error) == [ kind |-> "throw", value |-> None, error |-> error ]

\* generateImage from the point where the awaited service call settles:
\* what it returns, or the error it logs and re-throws.
GenerateImage(response) ==
    IF response.settle = "reject" THEN Throw(response.error)
    ELSE IF ~IsSome(response.candidates) THEN Throw("TypeError")
    ELSE IF ~IsSome(JsIndex(Get(response.candidates), 0)) THEN Throw("TypeError")
    ELSE LET content == Get(response.candidates)[1].content
         IN  IF ~IsSome(content) THEN Throw("TypeError")
             ELSE IF ~IsSome(Get(content).parts) THEN Throw("TypeError")
             ELSE Return(ScanParts(Get(Get(content).parts)))

(***************************************************************************)
(* Prompt composer and download name.                                      *)
(***************************************************************************)
\* Mutant of CombinedPrompt: the style clause before the expression clause.
CombinedPromptStyleFirst(sel) ==
    sel.pose \o << ",", " ", "w", "i", "t", "h", " " >> \o sel.style
        \o << ",", " " >> \o sel.expression
        \o << ",", " ", "c", "a", "p", "t", "u", "r", "e", "d", " " >>
        \o sel.cameraAngle

\* `${selectedPose}, with ${selectedExpression}, ${selectedStyle}, captured
\*  ${selectedCameraAngle}`
CombinedPrompt(sel) ==
    sel.pose \o << ",", " ", "w", "i", "t", "h", " " >> \o sel.expression
        \o << ",", " " >> \o sel.style
        \o << ",", " ", "c", "a", "p", "t", "u", "r", "e", "d", " " >>
        \o sel.cameraAngle

\* Mutant of MatchesNotAlnum: the class [^a-z0-9] without the i flag.
MatchesNotLowerAlnum(c) == c \notin Range(LowerAZ) \cup Range(Digits)

\* Whether character c is matched by the class [^a-z0-9] under the i flag.
MatchesNotAlnum(c) ==
    c \notin Range(LowerAZ) \cup Range(UpperAZ) \cup Range(Digits)

\* String.prototype.toLowerCase on one character.
ToLowerChar(c) ==
    IF c \in Range(UpperAZ)
    THEN LowerAZ[CHOOSE i \in 1..Len(UpperAZ) : UpperAZ[i] = c]
    ELSE c

\* combinedPrompt.replace(/[^a-z0-9]/gi, '_').toLowerCase()
CleanPrompt(prompt) ==
    LET replaced == [ i \in 1..Len(prompt) |->
                        IF MatchesNotAlnum(prompt[i]) THEN "_" ELSE prompt[i] ]
    IN  [ i \in 1..Len(replaced) |-> ToLowerChar(replaced[i]) ]

\* `generated_${cleanPrompt}.png`
DownloadName(prompt) ==
    << "g","e","n","e","r","a","t","e","d","_" >> \o CleanPrompt(prompt)
        \o << ".","p","n","g" >>

(***************************************************************************)
(* Result tiles.  `owner` is the invocation whose handler created the      *)
(* node: every createElement call yields a node of its own.                *)
(***************************************************************************)
\* Mutant of Placeholder: the placeholder is one shared node, not a node of
\* the invocation that created it.
PlaceholderShared(a) ==
    [ className |-> "result-placeholder", owner |-> 0, src |-> << >>,
      alt |-> << >>, download |-> << >>, textContent |-> "" ]

Placeholder(a) ==
    [ className |-> "result-placeholder", owner |-> a, src |-> << >>,
      alt |-> << >>, download |-> << >>, textContent |-> "" ]
ErrorTile(a, message) ==
    [ className |-> "result-error", owner |-> a, src |-> << >>,
      alt |-> << >>, download |-> << >>, textContent |-> message ]

\* `Generated image: ${combinedPrompt}`
AltText(prompt) ==
    << "G","e","n","e","r","a","t","e","d"," ","i","m","a","g","e",":"," " >>
        \o prompt

\* The container with the image (src, alt) and the download link (href equal
\* to src, download).
Container(a, resultSrc, prompt) ==
    [ className |-> "result-container", owner |-> a, src |-> resultSrc,
      alt |-> AltText(prompt), download |-> DownloadName(prompt),
      textContent |-> "Download" ]

\* resultsGrid.contains(node)
Contains(grid, node) == \E i \in 1..Len(grid) : grid[i] = node

\* Mutant of ReplaceChild: the new tile is appended, the old one stays.
ReplaceChildAppends(grid, newChild, oldChild) == Append(grid, newChild)

\* resultsGrid.replaceChild(newChild, oldChild)
ReplaceChild(grid, newChild, oldChild) ==
    [ i \in 1..Len(grid) |-> IF grid[i] = oldChild THEN newChild ELSE grid[i] ]

\* Mutant of SwapPlaceholder: the tile is appended to the results area,
\* whether the placeholder is still there or not.
SwapPlaceholderAppends(grid, a, tile) == Append(grid, tile)

\* Mutant of SwapPlaceholder: the placeholder is never replaced.
SwapPlaceholderSkips(grid, a, tile) == grid

\* if (resultsGrid.contains(placeholder)) resultsGrid.replaceChild(tile, placeholder)
SwapPlaceholder(grid, a, tile) ==
    IF Contains(grid, Placeholder(a))
    THEN ReplaceChild(grid, tile, Placeholder(a))
    ELSE grid

\* setControlsDisabled
SetControlsDisabled(d) == [ c \in Controls |-> d ]

(***************************************************************************)
(* The click handler of the generate button.                               *)
(***************************************************************************)
\* JavaScript truthiness of a string-or-null value.
Truthy(o) == IsSome(o) /\ Get(o) # << >>

\* The text part of the request: the instruction template around the prompt,
\* `From the image provided, change the subject to be ${prompt}. It is ...`
TemplateHead ==
    <<
        "F","r","o","m"," ","t","h","e"," ","i","m","a","g","e"," ","p",
        "r","o","v","i","d","e","d",","," ","c","h","a","n","g","e"," ",
        "t","h","e"," ","s","u","b","j","e","c","t"," ","t","o"," ","b",
        "e"," "
    >>
TemplateTail ==
    <<
        "."," ","I","t"," ","i","s"," ","c","r","i","t","i","c","a","l",
        " ","t","o"," ","k","e","e","p"," ","t","h","e"," ","s","u","b",
        "j","e","c","t","'","s"," ","f","a","c","e"," ","a","n","d"," ",
        "t","h","e"," ","o","r","i","g","i","n","a","l"," ","b","a","c",
        "k","g","r","o","u","n","d"," ","u","n","c","h","a","n","g","e",
        "d","."," ","O","n","l","y"," ","a","l","t","e","r"," ","t","h",
        "e"," ","b","o","d","y","'","s"," ","p","o","s","e"," ","a","n",
        "d"," ","e","x","p","r","e","s","s","i","o","n","."
    >>

InstructionText(prompt) == TemplateHead \o prompt \o TemplateTail

\* Mutant of Request: the image part always says image/png.
RequestAlwaysPng(prompt) ==
    IF ~IsSome(uploadedFile) THEN None
    ELSE Some([ data |-> Get(uploadedFile).base64,
                mimeType |-> PngType,
                text |-> InstructionText(prompt) ])

\* generateImage up to its await: no request when uploadedFile is null,
\* otherwise one request carrying the stored image and the prompt.
Request(prompt) ==
    IF ~IsSome(uploadedFile) THEN None
    ELSE Some([ data |-> Get(uploadedFile).base64,
                mimeType |-> Get(uploadedFile).mimeType,
                text |-> InstructionText(prompt) ])

\* Mutant of ClickRejected: the return after the alert is missing, so the
\* handler goes on to its await.
ClickRejectedNoReturn ==
    LET a == CHOOSE x \in Slots : TRUE
        combinedPrompt == CombinedPrompt(selected)
    IN  /\ alert = ""
        /\ ~disabled["generateBtn"]
        /\ ~IsSome(uploadedFile)
        /\ alert' = "Please upload an image first."
        /\ disabled' = SetControlsDisabled(TRUE)
        /\ loadingIndicator' = [ hidden |-> FALSE ]
        /\ loadingMessage' = "Generating image..."
        /\ resultsGrid' = Append(<< >>, Placeholder(a))
        /\ inv' = [ inv EXCEPT ![a] =
                      [ @ EXCEPT !.pc = "awaiting",
                                 !.combinedPrompt = combinedPrompt,
                                 !.request = Request(combinedPrompt) ] ]
        /\ current' = a
        /\ UNCHANGED << observed, uploadVars, selected, readers >>

\* The handler's precondition fails: alert and return.
ClickRejected ==
    /\ alert = ""
    /\ ~disabled["generateBtn"]
    /\ ~IsSome(uploadedFile)
    /\ alert' = "Please upload an image first."
    /\ UNCHANGED << observed, uploadVars, disabled, selected, domVars, readers, inv,
                    current >>

\* The invocations still alive once the results area has been emptied: one
\* that has finished leaves nothing behind (its tile is gone and none of
\* its callbacks is pending).
Alive(slots) == [ a \in Slots |-> IF slots[a].pc = "done" THEN Free ELSE slots[a] ]

\* Mutant of StartGeneration: the results area is not emptied, the new
\* placeholder is appended to the tiles that are there.
StartGenerationKeepsTiles ==
    LET alive == Alive(inv)
        a == CHOOSE x \in Slots :
                 alive[x].pc = "free" /\ \A y \in 1..(x - 1) : alive[y].pc # "free"
        combinedPrompt == CombinedPrompt(selected)
    IN  /\ disabled' = SetControlsDisabled(TRUE)
        /\ loadingIndicator' = [ hidden |-> FALSE ]
        /\ loadingMessage' = "Generating image..."
        /\ resultsGrid' = Append(resultsGrid, Placeholder(a))
        /\ inv' = [ alive EXCEPT ![a] =
                      [ Free EXCEPT !.pc = "awaiting",
                                    !.combinedPrompt = combinedPrompt,
                                    !.request = Request(combinedPrompt) ] ]
        /\ current' = a
        /\ UNCHANGED << uploadVars, selected, readers, alert >>

\* The handler from its first statement to the await of generateImage.
StartGeneration ==
    LET alive == Alive(inv)
        a == CHOOSE x \in Slots :
                 alive[x].pc = "free" /\ \A y \in 1..(x - 1) : alive[y].pc # "free"
        combinedPrompt == CombinedPrompt(selected)
    IN  /\ disabled' = SetControlsDisabled(TRUE)
        /\ loadingIndicator' = [ hidden |-> FALSE ]
        /\ loadingMessage' = "Generating image..."
        /\ resultsGrid' = Append(<< >>, Placeholder(a))
        /\ inv' = [ alive EXCEPT ![a] =
                      [ Free EXCEPT !.pc = "awaiting",
                                    !.combinedPrompt = combinedPrompt,
                                    !.request = Request(combinedPrompt) ] ]
        /\ current' = a
        /\ UNCHANGED << uploadVars, selected, readers, alert >>

\* A click on the enabled button with an image uploaded.
ClickAccepted ==
    /\ alert = ""
    /\ ~disabled["generateBtn"]
    /\ \E x \in Slots : Alive(inv)[x].pc = "free"
    /\ IsSome(uploadedFile)
    /\ StartGeneration
    /\ UNCHANGED observed

\* The record of an invocation whose handler has returned and whose image
\* events, if any, have fired: its locals are gone, what is kept is what it
\* received and what it did.
Finished(rec) ==
    [ rec EXCEPT !.pc = "done", !.combinedPrompt = << >>, !.request = None ]

\* What the awaited generateImage call of invocation a yields.
ResultOf(a, response) ==
    IF IsSome(inv[a].request) THEN GenerateImage(response) ELSE Return(None)

\* Mutant of TryCatch: the handler has no catch clause, so an error thrown by
\* generateImage leaves the handler at the await.
TryCatchNoCatch(a, response) ==
    LET result == ResultOf(a, response)
        thrown == result.kind = "throw"
        hasImage == ~thrown /\ Truthy(result.value)
        grid == IF hasImage \/ thrown THEN resultsGrid
                ELSE SwapPlaceholder(resultsGrid, a,
                                     ErrorTile(a, "Generation failed."))
    IN  [ grid |-> grid,
          rec |-> [ inv[a] EXCEPT
                      !.pc = IF hasImage THEN "loading" ELSE "done",
                      !.response = IF IsSome(inv[a].request)
                                   THEN Some(response) ELSE None,
                      !.resultSrc = result.value,
                      !.logged = @ + (IF thrown THEN 1 ELSE 0),
                      !.uncaught = thrown,
                      !.swaps = @ + (IF grid # resultsGrid THEN 1 ELSE 0) ],
          completes |-> ~thrown ]

\* Mutant of TryCatch: the success branch puts the image tile in place of
\* the placeholder at once, without waiting for the image to load.
TryCatchShowsAtOnce(a, response) ==
    LET result == ResultOf(a, response)
        thrown == result.kind = "throw"
        hasImage == ~thrown /\ Truthy(result.value)
        grid == IF hasImage
                THEN SwapPlaceholder(resultsGrid, a,
                         Container(a, Str(result.value), inv[a].combinedPrompt))
                ELSE IF thrown
                     THEN SwapPlaceholder(resultsGrid, a,
                                          ErrorTile(a, "API error."))
                     ELSE SwapPlaceholder(resultsGrid, a,
                                          ErrorTile(a, "Generation failed."))
    IN  [ grid |-> grid,
          rec |-> [ inv[a] EXCEPT
                      !.pc = IF hasImage THEN "loading" ELSE "done",
                      !.response = IF IsSome(inv[a].request)
                                   THEN Some(response) ELSE None,
                      !.resultSrc = result.value,
                      !.logged = @ + (IF thrown THEN 1 ELSE 0),
                      !.swaps = @ + (IF grid # resultsGrid THEN 1 ELSE 0) ],
          completes |-> TRUE ]

\* The try/catch statement of the handler of invocation a, entered when its
\* await resumes: the results area and the invocation's record after it, and
\* whether control reaches the statements that follow it.
TryCatch(a, response) ==
    LET result == ResultOf(a, response)
        thrown == result.kind = "throw"
        hasImage == ~thrown /\ Truthy(result.value)
        grid == IF hasImage THEN resultsGrid
                ELSE IF thrown
                     THEN SwapPlaceholder(resultsGrid, a,
                                          ErrorTile(a, "API error."))
                     ELSE SwapPlaceholder(resultsGrid, a,
                                          ErrorTile(a, "Generation failed."))
    IN  [ grid |-> grid,
          rec |-> [ inv[a] EXCEPT
                      !.pc = IF hasImage THEN "loading" ELSE "done",
                      !.response = IF IsSome(inv[a].request)
                                   THEN Some(response) ELSE None,
                      !.resultSrc = result.value,
                      !.logged = @ + (IF thrown THEN 1 ELSE 0),
                      !.swaps = @ + (IF grid # resultsGrid THEN 1 ELSE 0) ],
          completes |-> TRUE ]

\* The handler of invocation a from the point where its await resumes to
\* its last statement; it runs to completion.
AfterAwait(a, response) ==
    /\ alert = ""
    /\ inv[a].pc = "awaiting"
    /\ LET try == TryCatch(a, response)
           rec == IF try.completes
                  THEN [ try.rec EXCEPT !.finalised = @ + 1 ]
                  ELSE try.rec
       IN  /\ resultsGrid' = try.grid
           /\ inv' = [ inv EXCEPT ![a] = IF rec.pc = "done" THEN Finished(rec)
                                         ELSE rec ]
           /\ IF try.completes
              THEN /\ loadingIndicator' = [ hidden |-> TRUE ]
                   /\ disabled' = SetControlsDisabled(FALSE)
              ELSE UNCHANGED << loadingIndicator, disabled >>
    /\ UNCHANGED << observed, uploadVars, selected, loadingMessage, readers, current,
                    alert >>

\* The service call of some pending invocation settles.
ServiceSettles ==
    \E a \in Slots : \E response \in Responses : AfterAwait(a, response)

\* The end of the image load of invocation a: the placeholder, if still in
\* the results area, is replaced by the given tile.
ImgEvent(a, tile) ==
    /\ alert = ""
    /\ inv[a].pc = "loading"
    /\ resultsGrid' = SwapPlaceholder(resultsGrid, a, tile)
    /\ inv' = [ inv EXCEPT ![a] =
                  Finished([ @ EXCEPT !.swaps = @ + (IF resultsGrid' # resultsGrid
                                                     THEN 1 ELSE 0) ]) ]
    /\ UNCHANGED << observed, uploadVars, disabled, selected, loadingIndicator,
                    loadingMessage, readers, current, alert >>

\* img.onload
ImgOnload ==
    \E a \in Slots :
        ImgEvent(a, Container(a, Str(inv[a].resultSrc), inv[a].combinedPrompt))

\* img.onerror
ImgOnerror ==
    \E a \in Slots : ImgEvent(a, ErrorTile(a, "Failed to load image."))

\* The user closes the alert dialog; the handler that opened it returns.
AlertClosed ==
    /\ alert # ""
    /\ alert' = ""
    /\ UNCHANGED << observed, uploadVars, disabled, selected, domVars, readers, inv,
                    current >>

Next ==
    \/ HandleFile
    \/ AlertClosed
    \/ ReaderOnload
    \/ SelectChange
    \/ ClickRejected
    \/ ClickAccepted
    \/ ServiceSettles
    \/ ImgOnload
    \/ ImgOnerror

Spec == Init /\ [][Next]_vars

(***************************************************************************)
(* SpecService: the generate action on a page whose upload has completed,  *)
(* over a wider choice of dropdown values and of service responses.        *)
(***************************************************************************)
RichOptions ==
    [ pose        |-> Options.pose \cup { << EAcute,"_","Z" >> },
      expression  |-> Options.expression \cup { << "A"," ","b" >> },
      style       |-> Options.style,
      cameraAngle |-> Options.cameraAngle \cup { << "T","0","p","!" >> } ]

\* The page after the decode of file has completed on a fresh page.
Uploaded(file, sel) ==
    /\ uploadedFile = Some([ base64 |-> Base64String(ReadAsDataURL(file)),
                             mimeType |-> file.type ])
    /\ imagePreview =
           [ src |-> DataUri(file.type, Str(Base64String(ReadAsDataURL(file)))),
             hidden |-> FALSE ]
    /\ uploadPlaceholder = [ hidden |-> TRUE ]
    /\ disabled = SetControlsDisabled(FALSE)
    /\ selected = sel
    /\ loadingIndicator = [ hidden |-> TRUE ]
    /\ loadingMessage = ""
    /\ resultsGrid = << >>
    /\ readers = { }
    /\ inv = [ a \in Slots |-> Free ]
    /\ current = 0
    /\ alert = ""
    /\ observed = None

InitService ==
    \E sel \in Selections(RichOptions) :
        Uploaded([ type |-> PngType, payload |-> << "A","A","A","A" >> ], sel)

\* The service call of some pending invocation settles, with any response.
ServiceSettlesAny ==
    \E a \in Slots : \E response \in AllResponses : AfterAwait(a, response)

NextService ==
    \/ ClickAccepted
    \/ ServiceSettlesAny
    \/ ImgOnload
    \/ ImgOnerror

SpecService == InitService /\ [][NextService]_vars

(***************************************************************************)
(* Repeated generation: an image has been uploaded, the selections stay    *)
(* as they are, and generate actions are run one after the other.  At each *)
(* click the observer notes what the results area shows of the run before  *)
(* (its tiles without their node identity, and the response that run       *)
(* received), provided that run has come to its end.                       *)
(***************************************************************************)
\* What a tile shows: everything but the identity of the node.
Shape(grid) ==
    [ i \in 1..Len(grid) |->
        [ className |-> grid[i].className, src |-> grid[i].src,
          alt |-> grid[i].alt, download |-> grid[i].download,
          textContent |-> grid[i].textContent ] ]

\* No invocation is waiting for the service or for an image event.
Quiet == \A a \in Slots : inv[a].pc \in { "free", "done" }

\* The run of the latest invocation has ended with its image displayed.
ImageShown ==
    \E i \in 1..Len(resultsGrid) :
        /\ resultsGrid[i].owner = current
        /\ resultsGrid[i].className = "result-container"

InitTwice ==
    \E file \in ImageFiles : \E sel \in Selections(Options) : Uploaded(file, sel)

\* An accepted click, observed.
ClickAgain ==
    /\ alert = ""
    /\ ~disabled["generateBtn"]
    /\ \E x \in Slots : Alive(inv)[x].pc = "free"
    /\ IsSome(uploadedFile)
    /\ StartGeneration
    /\ observed' = IF current # 0 /\ Quiet
                   THEN Some([ shape |-> Shape(resultsGrid),
                               response |-> inv[current].response,
                               imageShown |-> ImageShown ])
                   ELSE None

NextTwice ==
    \/ ClickAgain
    \/ ServiceSettles
    \/ ImgOnload
    \/ ImgOnerror

SpecTwice == InitTwice /\ [][NextTwice]_vars

(***************************************************************************)
(* Properties.                                                             *)
(***************************************************************************)
AllEnabled(d) == \A c \in Controls : ~d[c]
Pending(a) == inv[a].pc \in { "awaiting", "loading" }
InFlight == { a \in Slots : inv[a].pc = "awaiting" /\ IsSome(inv[a].request) }
Settles(a) == inv[a].pc = "awaiting" /\ inv'[a].pc # "awaiting"
IsClick == \E x \in Slots :
               /\ resultsGrid' = << Placeholder(x) >>
               /\ inv'[x].pc = "awaiting"
               /\ inv[x].pc # "awaiting"
NodesOf(grid, a) == { i \in 1..Len(grid) : grid[i].owner = a }
IsFinalTile(t) == t.className \in { "result-container", "result-error" }

\* C1: for every accepted generate action whose service call settles, with
\* whatever outcome, the step that hides the loading indicator and re-enables
\* the five controls runs exactly once: it has not run while the call is in
\* flight, it has run once from the settling on (also when the image later
\* loads or fails to load), and right after it the indicator is hidden and
\* every control is enabled.
C1_ReenabledExactlyOnce ==
    /\ [](\A a \in Slots :
            /\ inv[a].pc \in { "free", "awaiting" } => inv[a].finalised = 0
            /\ inv[a].pc \in { "loading", "done" } => inv[a].finalised = 1)
    /\ [][\A a \in Slots :
            /\ Settles(a) =>
                  /\ inv'[a].finalised = inv[a].finalised + 1
                  /\ loadingIndicator'.hidden
                  /\ AllEnabled(disabled')
            /\ inv'[a].finalised > inv[a].finalised => Settles(a)]_vars

\* C1 witness: an action whose returned image failed to load has finished with
\* the step run once, controls enabled and the indicator hidden.
C1_Witness ==
    \E a \in Slots :
        /\ inv[a].pc = "done"
        /\ Contains(resultsGrid, ErrorTile(a, "Failed to load image."))
        /\ inv[a].finalised = 1
        /\ AllEnabled(disabled)
        /\ loadingIndicator.hidden

\* C2 as stated: the Placeholder of every accepted generate action is replaced
\* by an ImageResult or an ErrorResult exactly once, so an action that has
\* finished has had its tile replaced once.
C2_ReplacedExactlyOnce ==
    \A a \in Slots : inv[a].pc = "done" => inv[a].swaps = 1

\* C2 amended: every accepted generate action creates exactly one tile, a
\* Placeholder, which is replaced at most once: exactly once when the action
\* is still the latest accepted one at its outcome, never when a later action
\* has emptied the results area before; a final tile is never changed, only
\* removed when a later generate action empties the results area.
C2_ReplacedAtMostOnce ==
    /\ [](\A a \in Slots :
            /\ Cardinality(NodesOf(resultsGrid, a)) <= 1
            /\ inv[a].swaps <= 1
            /\ (Pending(a) /\ a = current) =>
                  resultsGrid = << Placeholder(a) >> /\ inv[a].swaps = 0
            /\ (inv[a].pc = "done" /\ a = current) =>
                  /\ inv[a].swaps = 1
                  /\ Len(resultsGrid) = 1
                  /\ resultsGrid[1].owner = a
                  /\ IsFinalTile(resultsGrid[1])
            /\ (inv[a].pc # "free" /\ a # current) =>
                  NodesOf(resultsGrid, a) = { } /\ inv[a].swaps = 0
            /\ inv[a].pc = "free" => NodesOf(resultsGrid, a) = { })
    /\ [][(\E i \in 1..Len(resultsGrid) : IsFinalTile(resultsGrid[i])) =>
            (resultsGrid' = resultsGrid \/ IsClick)]_vars

\* C2 witness: a later generate action started before the image of an earlier
\* one had loaded; the earlier action has finished without a replacement and
\* the later one with its one replacement.
C2_Witness ==
    \E a, b \in Slots :
        /\ a # b /\ b = current
        /\ inv[a].pc = "done" /\ inv[a].swaps = 0 /\ IsSome(inv[a].resultSrc)
        /\ inv[b].pc = "done" /\ inv[b].swaps = 1
        /\ resultsGrid[1].className = "result-container"

\* C3: through UI events alone at most one service request is in flight, and
\* the generate button is disabled whenever one is.
C3_OneRequestInFlight ==
    /\ Cardinality(InFlight) <= 1
    /\ InFlight # { } => disabled["generateBtn"]

\* C4: with no UploadedImage, triggering generation issues no service request
\* and leaves the results area, the controls' enablement and the loading
\* indicator as they were; the alert is its only effect.
C4_NoUploadNoGeneration ==
    /\ [](~IsSome(uploadedFile) =>
            /\ \A a \in Slots : inv[a].pc = "free"
            /\ resultsGrid = << >>)
    /\ [](alert = "Please upload an image first." => ~IsSome(uploadedFile))
    /\ [][(~IsSome(uploadedFile) /\ ~IsSome(uploadedFile')) =>
            UNCHANGED << inv, current, resultsGrid, disabled, loadingIndicator,
                         loadingMessage, imagePreview >>]_vars

\* C4 witness: the click handler has run with no UploadedImage and shown its
\* alert.
C4_Witness ==
    /\ alert = "Please upload an image first."
    /\ ~IsSome(uploadedFile)
    /\ ~disabled["generateBtn"]

HasImagePrefix(t) ==
    /\ Len(t) >= 6
    /\ t[1] = "i" /\ t[2] = "m" /\ t[3] = "a" /\ t[4] = "g" /\ t[5] = "e"
    /\ t[6] = "/"

\* C5: a file whose MIME type does not start with image/ is rejected with
\* the validation alert; the stored UploadedImage, the preview and the
\* generate button's enabled state stay as they were and no decode is
\* started (every decode in progress is of an image file).
C5_NonImageRejected ==
    /\ [](\A f \in readers : HasImagePrefix(f.type))
    /\ [](alert = "" =>
            \A f \in Files : ~HasImagePrefix(f.type) =>
                /\ ENABLED HandleFileRejected(f)
                /\ ~ENABLED HandleFileAccepted(f))
    /\ [][(alert' = "Please select an image file." /\ alert = "") =>
            UNCHANGED << uploadedFile, imagePreview, uploadPlaceholder,
                         disabled, readers, selected, inv, current,
                         resultsGrid, loadingIndicator, loadingMessage >>]_vars

\* C5 witness: the alert of a rejected file is open on a page that has an
\* UploadedImage and a decode in progress.
C5_Witness ==
    /\ alert = "Please select an image file."
    /\ IsSome(uploadedFile)
    /\ readers # { }

\* C6: the UploadedImage is absent or has a non-empty base64 payload and a
\* mimeType beginning with image/.
C6_UploadedImageInvariant ==
    IsSome(uploadedFile) =>
        /\ Truthy(Get(uploadedFile).base64)
        /\ HasImagePrefix(Get(uploadedFile).mimeType)

\* The parts of a well-formed response, None for a rejection or a response
\* without candidates, content or parts.
PartsOf(response) ==
    IF response.settle # "resolve" \/ ~IsSome(response.candidates) THEN None
    ELSE IF Get(response.candidates) = << >> THEN None
    ELSE IF ~IsSome(Get(response.candidates)[1].content) THEN None
    ELSE Get(Get(response.candidates)[1].content).parts
InlineParts(parts) == { i \in 1..Len(parts) : IsSome(parts[i].inlineData) }
NoInlinePart(response) ==
    IsSome(PartsOf(response)) /\ InlineParts(Get(PartsOf(response))) = { }

\* C7: when the service response of a generate action completes with no part
\* carrying inline image data, the action ends Failed and its Placeholder is
\* replaced by the error tile "Generation failed."; it does not go on to an
\* image and the "API error." tile is not shown.
C7_NoImagePartFails ==
    [][\A a \in Slots :
        (/\ Settles(a)
         /\ IsSome(inv'[a].response)
         /\ NoInlinePart(Get(inv'[a].response))) =>
            /\ inv'[a].pc = "done"
            /\ Contains(resultsGrid', ErrorTile(a, "Generation failed."))
            /\ ~Contains(resultsGrid', ErrorTile(a, "API error."))]_vars

\* C8: when the generation call of a generate action rejects or throws (a
\* rejection, or a response without candidates, content or parts), the action
\* ends Failed with the error tile "API error." in place of its Placeholder,
\* whatever the kind of failure; the error is logged once and does not leave
\* the click handler.
C8_ThrowGivesApiError ==
    [][\A a \in Slots :
        (/\ Settles(a)
         /\ IsSome(inv'[a].response)
         /\ ~IsSome(PartsOf(Get(inv'[a].response)))) =>
            /\ inv'[a].pc = "done"
            /\ Contains(resultsGrid', ErrorTile(a, "API error."))
            /\ inv'[a].logged = 1
            /\ ~inv'[a].uncaught]_vars

Containers(grid) ==
    { i \in 1..Len(grid) : grid[i].className = "result-container" }
Min(S) == CHOOSE k \in S : \A j \in S : k <= j

\* C9: the result source comes from the first part, in list order, that
\* carries inline image data (earlier text parts are skipped, later image
\* parts ignored) and equals data:<its mimeType>;base64,<its data>; it is the
\* source of the image shown; the single part {data: "AAAA", mimeType:
\* "image/png"} yields data:image/png;base64,AAAA.
C9_FirstInlinePart ==
    /\ \A a \in Slots :
          (IsSome(inv[a].response) /\ IsSome(PartsOf(Get(inv[a].response)))) =>
              LET parts == Get(PartsOf(Get(inv[a].response)))
              IN  IF InlineParts(parts) = { } THEN inv[a].resultSrc = None
                  ELSE LET first == Get(parts[Min(InlineParts(parts))].inlineData)
                       IN  inv[a].resultSrc =
                               Some(<< "d","a","t","a",":" >> \o first.mimeType
                                    \o << ";","b","a","s","e","6","4","," >>
                                    \o first.data)
    /\ \A a \in Slots :
          inv[a].response = Some(WithParts(<< PngPart >>)) =>
              inv[a].resultSrc =
                  Some(<< "d","a","t","a",":","i","m","a","g","e","/","p","n","g",
                          ";","b","a","s","e","6","4",",","A","A","A","A" >>)
    /\ \A i \in Containers(resultsGrid) :
          Some(resultsGrid[i].src) = inv[resultsGrid[i].owner].resultSrc

\* C9 witness: a response whose first part is text, second a PNG and third a
\* GIF has led to a displayed image whose source is the PNG's data URI.
C9_Witness ==
    \E a \in Slots :
        /\ inv[a].response = Some(WithParts(<< TextPart, PngPart, GifPart >>))
        /\ Containers(resultsGrid) # { }
        /\ resultsGrid[1].owner = a
        /\ resultsGrid[1].src = DataUri(PngType, << "A","A","A","A" >>)

IsAsciiAlnum(c) ==
    \/ \E i \in 1..26 : c = LowerAZ[i] \/ c = UpperAZ[i]
    \/ \E i \in 1..10 : c = Digits[i]
LowerOf(c) ==
    IF \E i \in 1..26 : c = UpperAZ[i]
    THEN LowerAZ[CHOOSE i \in 1..26 : c = UpperAZ[i]]
    ELSE c
\* The composed instruction of a displayed image: its alt text without the
\* leading "Generated image: ".
PromptOf(tile) == SubSeq(tile.alt, 18, Len(tile.alt))

\* C10: the download name of a displayed image is generated_ followed by the
\* composed instruction with every character that is not an ASCII letter or
\* digit replaced by one underscore and every letter lower-cased, followed by
\* .png: same length as the instruction, and only lower-case letters, digits
\* and underscores in between.
C10_DownloadName ==
    \A i \in Containers(resultsGrid) :
        LET prompt == PromptOf(resultsGrid[i])
            name == resultsGrid[i].download
        IN  /\ Len(name) = 10 + Len(prompt) + 4
            /\ SubSeq(name, 1, 10) = << "g","e","n","e","r","a","t","e","d","_" >>
            /\ SubSeq(name, Len(name) - 3, Len(name)) = << ".","p","n","g" >>
            /\ \A k \in 1..Len(prompt) :
                  /\ name[10 + k] = IF IsAsciiAlnum(prompt[k])
                                    THEN LowerOf(prompt[k]) ELSE "_"
                  /\ \/ \E j \in 1..26 : name[10 + k] = LowerAZ[j]
                     \/ \E j \in 1..10 : name[10 + k] = Digits[j]
                     \/ name[10 + k] = "_"

\* C10 witness: an image is displayed whose instruction holds upper-case
\* letters, a digit, an underscore, a non-ASCII letter and punctuation.
C10_Witness ==
    \E i \in Containers(resultsGrid) :
        LET chars == Range(PromptOf(resultsGrid[i]))
        IN  { "Z", "T", "0", "_", EAcute, "!", ",", " " } \subseteq chars

(***************************************************************************)
(* Prompt composer and request text.                                       *)
(***************************************************************************)
\* The slot an accepted click starts in this step, as a set (empty when the
\* step is not an accepted click).
Clicked ==
    { x \in Slots : /\ resultsGrid' = << Placeholder(x) >>
                    /\ inv'[x].pc = "awaiting"
                    /\ inv[x].pc # "awaiting" }

\* The piece of s that starts after the first k characters and is n long.
Piece(s, k, n) == SubSeq(s, k + 1, k + n)

\* C11: at an accepted click the composed instruction holds the four selected
\* values, each once and in the order pose, expression, style, camera angle:
\* the pose, then ", with " and the expression, then ", " and the style, then
\* ", captured " and the camera angle, and nothing else; and the text part of
\* the request is the constraint template with that instruction embedded
\* unchanged between its head and its tail.
C11_PromptComposed ==
    [][ \A x \in Clicked :
          LET p    == inv'[x].combinedPrompt
              text == Get(inv'[x].request).text
              n1   == Len(selected.pose)
              n2   == Len(selected.expression)
              n3   == Len(selected.style)
              n4   == Len(selected.cameraAngle)
              h    == Len(TemplateHead)
              t    == Len(TemplateTail)
          IN  /\ Len(p) = n1 + 7 + n2 + 2 + n3 + 11 + n4
              /\ Piece(p, 0, n1) = selected.pose
              /\ Piece(p, n1, 7) = << ",", " ", "w", "i", "t", "h", " " >>
              /\ Piece(p, n1 + 7, n2) = selected.expression
              /\ Piece(p, n1 + 7 + n2, 2) = << ",", " " >>
              /\ Piece(p, n1 + 7 + n2 + 2, n3) = selected.style
              /\ Piece(p, n1 + 7 + n2 + 2 + n3, 11) =
                     << ",", " ", "c", "a", "p", "t", "u", "r", "e", "d", " " >>
              /\ Piece(p, n1 + 7 + n2 + 2 + n3 + 11, n4) = selected.cameraAngle
              /\ IsSome(inv'[x].request)
              /\ Len(text) = h + Len(p) + t
              /\ Piece(text, 0, h) = TemplateHead
              /\ Piece(text, h, Len(p)) = p
              /\ Piece(text, h + Len(p), t) = TemplateTail
      ]_vars

\* C11 witness: a request is in flight whose instruction was composed with the
\* pose run-2, a value that holds a hyphen and a digit.
C11_Witness ==
    \E a \in Slots :
        /\ inv[a].pc = "awaiting"
        /\ IsSome(inv[a].request)
        /\ Piece(inv[a].combinedPrompt, 0, 5) = << "r", "u", "n", "-", "2" >>
        /\ Len(Get(inv[a].request).text) >
              Len(TemplateHead) + Len(TemplateTail) + 5

(***************************************************************************)
(* Idempotence.                                                            *)
(***************************************************************************)
\* C12: when a generate action is run again with the same uploaded image and
\* the same selections, receives the same response from the service, and its
\* image ends the same way (loads in both runs or in neither), the results
\* area after the second run shows what it showed after the first: one tile
\* with the same image source, the same download name, the same alternative
\* text and the same message; nothing the first run left behind shows.
C12_SameTileTwice ==
    \A o \in Range(observed) :
        ( /\ Quiet
          /\ inv[current].response = o.response
          /\ ImageShown = o.imageShown )
        => Shape(resultsGrid) = o.shape

\* C12 witness: a second run has ended with an image displayed, after a first
\* run that received the same response and displayed its image too.
C12_Witness ==
    \E o \in Range(observed) :
        /\ Quiet
        /\ inv[current].response = o.response
        /\ ImageShown /\ o.imageShown
        /\ Len(resultsGrid) = 1
        /\ Len(resultsGrid[1].src) > 0
        /\ Len(resultsGrid[1].download) > 0

(***************************************************************************)
(* Order of the final step and the final tile.                             *)
(***************************************************************************)
\* C13, as claimed: once the step that hides the loading indicator and
\* re-enables the controls has run for an action, that action's placeholder
\* is no longer pending in the results area.
C13_ReenabledAfterFinalTile ==
    \A a \in Slots :
        inv[a].finalised > 0 => ~Contains(resultsGrid, Placeholder(a))

\* C13, amended: the step that hides the loading indicator and re-enables the
\* controls runs in the turn in which the service call settles, after the
\* try/catch: on the failure paths the action's placeholder has been replaced
\* by then, on the success path the results area is as it was, the image has
\* yet to load, and the placeholder, if it was there, is still pending; the
\* image events that replace it later change neither the controls nor the
\* indicator.
C13_ReenabledAfterTryCatch ==
    [][ \A a \in Slots :
          /\ inv'[a].finalised = inv[a].finalised + 1 =>
                /\ inv[a].pc = "awaiting"
                /\ loadingIndicator'.hidden /\ AllEnabled(disabled')
                /\ IF inv'[a].pc = "loading"
                   THEN resultsGrid' = resultsGrid
                   ELSE /\ inv'[a].pc = "done"
                        /\ ~Contains(resultsGrid', Placeholder(a))
          /\ (inv[a].pc = "loading" /\ inv'[a].pc = "done") =>
                /\ inv'[a].finalised = inv[a].finalised
                /\ UNCHANGED << disabled, loadingIndicator >>
      ]_vars

\* C13 witness: the controls are enabled and the indicator hidden while the
\* placeholder of the action that re-enabled them is still in the results
\* area, its image not yet loaded.
C13_Witness ==
    \E a \in Slots :
        /\ inv[a].pc = "loading"
        /\ inv[a].finalised = 1
        /\ Contains(resultsGrid, Placeholder(a))
        /\ AllEnabled(disabled)
        /\ loadingIndicator.hidden

(***************************************************************************)
(* Controls while a request is in flight.                                  *)
(***************************************************************************)
\* C14: whenever a service request is in flight, issued and not yet settled,
\* all five controls are disabled and the loading indicator is visible,
\* whatever uploads, decodes and other generate actions take place meanwhile.
C14_DisabledWhileInFlight ==
    InFlight # { } =>
        /\ \A c \in Controls : disabled[c]
        /\ ~loadingIndicator.hidden

(***************************************************************************)
(* Image load and image error.                                             *)
(***************************************************************************)
\* The tiles of invocation a in the grid that are image tiles, and those that
\* say the image failed to load.
ImageTilesOf(grid, a) ==
    { i \in NodesOf(grid, a) : grid[i].className = "result-container" }
LoadFailedTilesOf(grid, a) ==
    { i \in NodesOf(grid, a) :
        /\ grid[i].className = "result-error"
        /\ grid[i].textContent = "Failed to load image." }

\* The step is the image event (load or error) of invocation a.
ImageEventOf(a) == inv[a].pc = "loading" /\ inv'[a].pc = "done"

\* C15, as claimed: the image event of an action with a successful response
\* replaces the placeholder, by the image tile (load) or by the tile saying
\* "Failed to load image." (error).
C15_EventReplacesPlaceholder ==
    [][ \A a \in Slots :
          ImageEventOf(a) =>
              \/ ImageTilesOf(resultsGrid', a) # { }
              \/ LoadFailedTilesOf(resultsGrid', a) # { }
      ]_vars

\* C15, amended: after a successful response the placeholder stays until the
\* image event: no image tile and no "Failed to load image." tile of the
\* action is in the results area before it.  At the image event, if the
\* placeholder is still in the results area it is replaced, where it stands,
\* by the image tile or by the "Failed to load image." tile, never by both;
\* if a later action has emptied the results area the event changes nothing.
\* Either tile appears only at that event, and the action has no further
\* replacement: the tile stays as it is until a click empties the area.
C15_ReplacedAtImageEvent ==
    [][ \A a \in Slots :
          LET shownBefore == ImageTilesOf(resultsGrid, a)
                                 \cup LoadFailedTilesOf(resultsGrid, a)
              shownAfter  == ImageTilesOf(resultsGrid', a)
                                 \cup LoadFailedTilesOf(resultsGrid', a)
          IN  /\ inv[a].pc \in { "awaiting", "loading" } => shownBefore = { }
              /\ (shownAfter # { } /\ shownBefore = { }) => ImageEventOf(a)
              /\ ImageEventOf(a) =>
                    IF Contains(resultsGrid, Placeholder(a))
                    THEN /\ Len(resultsGrid') = Len(resultsGrid)
                         /\ Cardinality(shownAfter) = 1
                         /\ \A i \in 1..Len(resultsGrid) :
                               IF resultsGrid[i] = Placeholder(a)
                               THEN i \in shownAfter
                               ELSE resultsGrid'[i] = resultsGrid[i]
                         /\ ~Contains(resultsGrid', Placeholder(a))
                         /\ inv'[a].swaps = 1
                    ELSE /\ resultsGrid' = resultsGrid
                         /\ inv'[a].swaps = 0
              /\ shownBefore # { } =>
                    \/ resultsGrid' = resultsGrid
                    \/ \E x \in Slots : resultsGrid' = << Placeholder(x) >>
      ]_vars

\* C15 witness: the image of an action failed to load and its placeholder
\* has been replaced, once, by the tile saying so.
C15_Witness ==
    \E a \in Slots :
        /\ inv[a].pc = "done"
        /\ IsSome(inv[a].resultSrc)
        /\ inv[a].swaps = 1
        /\ LoadFailedTilesOf(resultsGrid, a) # { }
        /\ ImageTilesOf(resultsGrid, a) = { }

(***************************************************************************)
(* The request of an action.                                               *)
(***************************************************************************)
\* C16: an accepted click issues one request, whose image part carries the
\* payload and the mimeType stored as uploadedFile at the click and whose
\* text part carries the instruction composed from the selections at the
\* click; while the action waits for the service its request stays that one,
\* whatever upload completes meanwhile, and once the call has settled the
\* action never waits for the service again (no second request, no retry).
C16_OneRequestAsClicked ==
    [][ \A a \in Slots :
          /\ a \in Clicked =>
                /\ IsSome(uploadedFile)
                /\ inv'[a].request =
                       Some([ data |-> Get(uploadedFile).base64,
                              mimeType |-> Get(uploadedFile).mimeType,
                              text |-> TemplateHead
                                         \o CombinedPrompt(selected)
                                         \o TemplateTail ])
          /\ (inv[a].pc = "awaiting" /\ inv'[a].pc = "awaiting") =>
                inv'[a].request = inv[a].request
          /\ (inv[a].pc # "awaiting" /\ inv'[a].pc = "awaiting") =>
                a \in Clicked
          /\ inv[a].pc = "loading" => inv'[a].pc \in { "loading", "done" }
      ]_vars

\* C16 witness: a request is in flight that carries the image stored at its
\* click, while an upload completed since has stored another image.
C16_Witness ==
    \E a \in Slots :
        /\ inv[a].pc = "awaiting"
        /\ IsSome(inv[a].request)
        /\ IsSome(uploadedFile)
        /\ Get(inv[a].request).mimeType = PngType
        /\ Get(inv[a].request).data = Some(<< "A", "A", "A", "A" >>)
        /\ Get(uploadedFile).mimeType = GifType

(***************************************************************************)
(* Concurrent decodes.                                                     *)
(***************************************************************************)
\* The stored image and the preview a completed decode of file f leaves.
StoredFrom(f, stored, preview) ==
    /\ stored = Some([ base64 |-> Some(f.payload), mimeType |-> f.type ])
    /\ preview.src = << "d","a","t","a",":" >> \o f.type
                        \o << ";","b","a","s","e","6","4","," >> \o f.payload
    /\ ~preview.hidden

\* C17: whichever of the uploads that are decoding completes, in whatever
\* order, it overwrites what an earlier decode stored, with its own payload,
\* mimeType and preview, and nothing else writes them; so whenever an image
\* is stored, its payload, its mimeType and the preview all come from one
\* and the same file, that of the decode that completed last.
C17_LastDecodeWins ==
    /\ [] ( IsSome(uploadedFile) =>
               \E f \in ImageFiles : StoredFrom(f, uploadedFile, imagePreview) )
    /\ [][ /\ \A f \in readers \ readers' :
                 StoredFrom(f, uploadedFile', imagePreview')
           /\ << uploadedFile, imagePreview >>' # << uploadedFile, imagePreview >>
                 => readers' # readers
       ]_vars

\* C17 witness: two uploads are decoding at once while the image of an
\* earlier decode is stored and previewed, and either of the two can be the
\* next to complete and overwrite it.
C17_Witness ==
    /\ Cardinality(readers) = 2
    /\ alert = ""
    /\ \E f \in ImageFiles : StoredFrom(f, uploadedFile, imagePreview)
    /\ \A f \in readers :
          ENABLED (ReaderOnload /\ readers' = readers \ { f })

(***************************************************************************)
(* The results area.                                                       *)
(***************************************************************************)
\* C18: the results area never holds more than one tile, and that tile is a
\* placeholder, an image tile or an error tile, also when generate actions
\* overlap.
C18_AtMostOneTile ==
    /\ Len(resultsGrid) <= 1
    /\ \A i \in 1..Len(resultsGrid) :
          resultsGrid[i].className \in
              { "result-placeholder", "result-container", "result-error" }

\* C18 witness: two generate actions overlap, both have yet to come to their
\* end, and the results area holds one tile.
C18_Witness ==
    /\ \A a \in Slots : Pending(a)
    /\ Len(resultsGrid) = 1

\* C19: every image tile or error tile in the results area belongs to the
\* latest accepted generate action; and when an earlier action, whose tile a
\* later click has removed, receives its response or its image event, the
\* results area stays as it is.
C19_NoStaleResult ==
    /\ [] ( \A i \in 1..Len(resultsGrid) :
               IsFinalTile(resultsGrid[i]) => resultsGrid[i].owner = current )
    /\ [][ \A a \in Slots :
             ( /\ a # current
               /\ Pending(a)
               /\ inv'[a].pc # inv[a].pc )
             => resultsGrid' = resultsGrid
       ]_vars

\* C19 witness: an earlier action has received its response and come to its
\* end without touching the results area, which shows the final tile of the
\* latest action.
C19_Witness ==
    \E a \in Slots :
        /\ a # current
        /\ inv[a].pc = "done"
        /\ IsSome(inv[a].response)
        /\ inv[a].swaps = 0
        /\ Len(resultsGrid) = 1
        /\ IsFinalTile(resultsGrid[1])
        /\ resultsGrid[1].owner = current

(***************************************************************************)
(* The stored image stays.                                                 *)
(***************************************************************************)
\* The tiles of the grid that say "Generation failed.".
GenerationFailedTiles(grid) ==
    { i \in 1..Len(grid) : /\ grid[i].className = "result-error"
                           /\ grid[i].textContent = "Generation failed." }

\* C20: a stored image is never taken away again; so every accepted generate
\* action has issued a request (none takes the branch of generateImage that
\* returns null without calling the service), and a tile saying "Generation
\* failed." is only ever shown by an action whose request has been answered.
C20_ImageStaysStored ==
    /\ [][ IsSome(uploadedFile) => IsSome(uploadedFile') ]_vars
    /\ [] ( \A a \in Slots : inv[a].pc = "awaiting" => IsSome(inv[a].request) )
    /\ [] ( \A i \in GenerationFailedTiles(resultsGrid) :
               LET a == resultsGrid[i].owner
               IN  /\ inv[a].pc = "done"
                   /\ IsSome(inv[a].response)
                   /\ Get(inv[a].response).settle = "resolve" )

\* C20 witness: a tile says "Generation failed." and the action that shows
\* it received a response from the service, while an image is stored.
C20_Witness ==
    /\ IsSome(uploadedFile)
    /\ \E i \in GenerationFailedTiles(resultsGrid) :
          IsSome(inv[resultsGrid[i].owner].response)

====
